---- MODULE Spec2Model ----
(***************************************************************************)
(* Hyperedge Inclusion Forest (hif.c): a forest of weighted vertex sets.   *)
(*                                                                         *)
(* A Node is a record [verts, weight, children]: verts is the stored       *)
(* vertex array (a sequence of ints), weight the double, children the      *)
(* ordered child array.  A Forest is the ordered array of roots.  A Node*  *)
(* handed out by a query is modelled by the node's path: <<r>> is root r,  *)
(* Append(p, c) the c-th child of the node at p.                           *)
(*                                                                         *)
(* Weights are fixed-point numbers: the integer w stands for the double    *)
(* w * 1e-9 / Scale, so EPSILON (1e-9) is Scale units.  Callers pass       *)
(* weights that are whole multiples of 1e-9; Scale is chosen so that the   *)
(* divisions of forest_merge_duplicates are exact.                         *)
(***************************************************************************)
EXTENDS Integers, Sequences, FiniteSets, Bags, TLC

VARIABLES forest, inserted, means

vars == <<forest, inserted, means>>

(* ------------------------------ bounds -------------------------------- *)
MaxNodes == 3
NumVerts == 3
MaxLen == 3
MaxWeight == 2
MaxMeans == 1
MaxBatch == 2
MaxBatchLen == 2
MaxWideNodes == 1
ChainLen == 5
MaxChainWeight == 6
MaxApartNodes == 3
MaxApartWeight == 6

RECURSIVE Gcd(_, _)
Gcd(a, b) == IF b = 0 THEN a ELSE Gcd(b, a % b)

RECURSIVE LcmUpTo(_)
LcmUpTo(n) == IF n <= 1 THEN 1 ELSE (LcmUpTo(n - 1) * n) \div Gcd(LcmUpTo(n - 1), n)

RECURSIVE Pow(_, _)
Pow(b, e) == IF e = 0 THEN 1 ELSE b * Pow(b, e - 1)

Scale == Pow(LcmUpTo(MaxNodes), MaxMeans)

EPSILON == Scale

Verts == 1 .. NumVerts
Weights == {k * Scale : k \in 0 .. MaxWeight}

RECURSIVE SeqsUpTo(_, _)
SeqsUpTo(S, n) ==
  IF n = 0 THEN {<<>>}
  ELSE LET shorter == SeqsUpTo(S, n - 1)
       IN shorter \cup {Append(s, x) : s \in {t \in shorter : Len(t) = n - 1}, x \in S}

RawLists == SeqsUpTo(Verts, MaxLen)

Range(s) == {s[i] : i \in DOMAIN s}

Min(a, b) == IF a < b THEN a ELSE b

RemoveAt(s, i) == SubSeq(s, 1, i - 1) \o SubSeq(s, i + 1, Len(s))

ReplaceAt(s, i, x) == [s EXCEPT ![i] = x]

(* ---------------------------- machine ints ---------------------------- *)
INT_MAX == 2147483647
INT_MIN == -2147483647 - 1

\* a - b in 32-bit two's complement, computed without leaving the int range
WrapSub(a, b) ==
  IF b < 0 /\ a > INT_MAX + b THEN (a + INT_MIN) - (b - INT_MIN)
  ELSE IF b > 0 /\ a < INT_MIN + b THEN (a - INT_MIN) - (b + INT_MIN)
  ELSE a - b

SubOverflows(a, b) == (b < 0 /\ a > INT_MAX + b) \/ (b > 0 /\ a < INT_MIN + b)

\* cmp_int returns *a - *b.  Signed overflow is undefined: the build either
\* wraps (a plain sub instruction) or keeps the mathematical sign (a
\* comparison folded under the no-overflow assumption).
cmp_int(a, b) ==
  IF SubOverflows(a, b)
  THEN {WrapSub(a, b), IF a < b THEN -1 ELSE 1}
  ELSE {a - b}

(* ------------------------------- qsort -------------------------------- *)
IntInOrder(a, b) == \E r \in cmp_int(a, b) : r <= 0

\* the arrangements of the elements of s at the indices idxs in which every
\* element is in order after its predecessor (s[prev] before the first)
RECURSIVE sorted_ints_from(_, _, _)
sorted_ints_from(s, idxs, prev) ==
  IF idxs = {} THEN {<<>>}
  ELSE UNION {{<<s[i]>> \o t : t \in sorted_ints_from(s, idxs \ {i}, i)} :
                i \in {j \in idxs : prev = 0 \/ IntInOrder(s[prev], s[j])}}

\* qsort(a, n, sizeof(int), cmp_int): the array is permuted so that adjacent
\* elements are in order by the comparator; where the comparator's result is
\* undefined either order may come out.
qsort_cmp_int(s) == sorted_ints_from(s, DOMAIN s, 0)

(* --------------------------- internal helpers ------------------------- *)
RECURSIVE is_subset_from(_, _, _, _)
is_subset_from(A, B, i, j) ==
  IF i <= Len(A) /\ j <= Len(B)
  THEN IF A[i] = B[j] THEN is_subset_from(A, B, i + 1, j + 1)
       ELSE IF A[i] > B[j] THEN is_subset_from(A, B, i, j + 1)
       ELSE FALSE
  ELSE i = Len(A) + 1

is_subset(A, B) == is_subset_from(A, B, 1, 1)

\* the comparison with the subset relation consulted before the weight
weighted_cmp_subset_first(A, B) ==
  LET A_in_B == is_subset(A.verts, B.verts)
      B_in_A == is_subset(B.verts, A.verts)
  IN IF B_in_A /\ ~A_in_B THEN -1
     ELSE IF A_in_B /\ ~B_in_A THEN 1
     ELSE IF A.weight > B.weight + EPSILON THEN -1
     ELSE IF B.weight > A.weight + EPSILON THEN 1
     ELSE IF Len(A.verts) > Len(B.verts) THEN -1
     ELSE IF Len(B.verts) > Len(A.verts) THEN 1
     ELSE 0

weighted_cmp(A, B) ==
  IF A.weight > B.weight + EPSILON THEN -1
  ELSE IF B.weight > A.weight + EPSILON THEN 1
  ELSE LET A_in_B == is_subset(A.verts, B.verts)
           B_in_A == is_subset(B.verts, A.verts)
       IN IF B_in_A /\ ~A_in_B THEN -1
          ELSE IF A_in_B /\ ~B_in_A THEN 1
          ELSE IF Len(A.verts) > Len(B.verts) THEN -1
          ELSE IF Len(B.verts) > Len(A.verts) THEN 1
          ELSE 0

node_create(verts, weight) == [verts |-> verts, weight |-> weight, children |-> <<>>]

\* the child stored without advancing nchildren: the next one overwrites it
node_add_child_no_advance(parent, child) ==
  [parent EXCEPT !.children = IF Len(@) = 0 THEN <<child>> ELSE ReplaceAt(@, Len(@), child)]

node_add_child(parent, child) == [parent EXCEPT !.children = Append(@, child)]

forest_add_root(f, r) == Append(f, r)

forest_remove_root_at(f, idx) == IF idx < 1 \/ idx > Len(f) THEN f ELSE RemoveAt(f, idx)

(* ----------------------------- insertion ------------------------------ *)
\* insert_into_node and its child loop return [res, root, newn]: the return
\* code and the two nodes as the call leaves them.
RECURSIVE insert_into_node(_, _), insert_scan_children(_, _, _)
\* placement that never reports "root belongs under newn": a dominated child
\* is passed over instead of being moved under the new node
insert_into_node_no_steal(root, newn) ==
  LET cmp == weighted_cmp(root, newn)
  IN IF cmp = -1 /\ is_subset(newn.verts, root.verts)
     THEN insert_scan_children(root, newn, 1)
     ELSE [res |-> 0, root |-> root, newn |-> newn]

insert_into_node(root, newn) ==
  LET cmp == weighted_cmp(root, newn)
  IN IF cmp = 1 THEN [res |-> 1, root |-> root, newn |-> newn]
     ELSE IF cmp = -1
     THEN IF ~is_subset(newn.verts, root.verts)
          THEN [res |-> 0, root |-> root, newn |-> newn]
          ELSE insert_scan_children(root, newn, 1)
     ELSE [res |-> 0, root |-> root, newn |-> newn]

insert_scan_children(root, newn, i) ==
  IF i > Len(root.children)
  THEN [res |-> -1, root |-> node_add_child(root, newn), newn |-> newn]
  ELSE LET r == insert_into_node(root.children[i], newn)
       IN IF r.res = 1
          THEN insert_scan_children(
                 [root EXCEPT !.children = RemoveAt(@, i)],
                 node_add_child(newn, root.children[i]), i)
          ELSE IF r.res = -1
          THEN [res |-> -1,
                root |-> [root EXCEPT !.children = ReplaceAt(@, i, r.root)],
                newn |-> r.newn]
          ELSE insert_scan_children(root, newn, i + 1)

RECURSIVE insert_scan_roots_skip_after_capture(_, _, _)
\* the root loop advancing past the slot a captured root left, so that the
\* root that moved into it is never compared
insert_scan_roots_skip_after_capture(f, newn, i) ==
  IF i > Len(f) THEN forest_add_root(f, newn)
  ELSE LET r == f[i]
           cmp == weighted_cmp(r, newn)
       IN IF cmp = 1
          THEN insert_scan_roots_skip_after_capture(
                 forest_remove_root_at(f, i), node_add_child(newn, r), i + 1)
          ELSE IF cmp = -1
          THEN LET got == insert_into_node(r, newn)
               IN IF got.res = 1
                  THEN insert_scan_roots_skip_after_capture(
                         forest_remove_root_at(f, i), node_add_child(newn, r), i)
                  ELSE IF got.res = -1 THEN ReplaceAt(f, i, got.root)
                  ELSE insert_scan_roots_skip_after_capture(f, newn, i + 1)
          ELSE insert_scan_roots_skip_after_capture(f, newn, i + 1)

RECURSIVE insert_scan_roots(_, _, _)
insert_scan_roots(f, newn, i) ==
  IF i > Len(f) THEN forest_add_root(f, newn)
  ELSE LET r == f[i]
           cmp == weighted_cmp(r, newn)
       IN IF cmp = 1
          THEN insert_scan_roots(forest_remove_root_at(f, i), node_add_child(newn, r), i)
          ELSE IF cmp = -1
          THEN LET got == insert_into_node(r, newn)
               IN IF got.res = 1
                  THEN insert_scan_roots(forest_remove_root_at(f, i),
                                         node_add_child(newn, r), i)
                  ELSE IF got.res = -1 THEN ReplaceAt(f, i, got.root)
                  ELSE insert_scan_roots(f, newn, i + 1)
          ELSE insert_scan_roots(f, newn, i + 1)

forest_insert_node(f, newn) == insert_scan_roots(f, newn, 1)

RECURSIVE dedup_from(_, _, _)
dedup_from(a, out, i) ==
  IF i > Len(a) THEN out
  ELSE IF a[i] # out[Len(out)] THEN dedup_from(a, Append(out, a[i]), i + 1)
  ELSE dedup_from(a, out, i + 1)

\* normalize_vertices without the n_in == 0 return: w starts at 1, so one
\* element of the (empty) copy comes back, whatever it holds
normalize_vertices_no_empty_return(in) ==
  IF Len(in) = 0 THEN {<<v>> : v \in Verts}
  ELSE {dedup_from(a, <<a[1]>>, 2) : a \in qsort_cmp_int(in)}

\* the possible results of normalize_vertices (one unless cmp_int overflows)
normalize_vertices(in) ==
  IF Len(in) = 0 THEN {<<>>}
  ELSE {dedup_from(a, <<a[1]>>, 2) : a \in qsort_cmp_int(in)}

\* the possible forests after insert_hyperedge(f, verts, nverts, weight)
insert_hyperedge(f, verts, weight) ==
  {IF Len(norm) = 0 THEN f ELSE forest_insert_node(f, node_create(norm, weight)) :
     norm \in normalize_vertices(verts)}

(* --------------------------- whole-forest walks ------------------------ *)
RECURSIVE count_nodes_recursive(_), count_children_from(_, _)
count_nodes_recursive(nd) == 1 + count_children_from(nd.children, 1)

count_children_from(cs, i) ==
  IF i > Len(cs) THEN 0
  ELSE count_nodes_recursive(cs[i]) + count_children_from(cs, i + 1)

count_total_nodes(f) == count_children_from(f, 1)

RECURSIVE node_depth(_), max_child_depth_from(_, _, _)
node_depth(nd) == 1 + max_child_depth_from(nd.children, 1, 0)

max_child_depth_from(cs, i, max) ==
  IF i > Len(cs) THEN max
  ELSE LET d == node_depth(cs[i])
       IN max_child_depth_from(cs, i + 1, IF d > max THEN d ELSE max)

forest_max_depth(f) == max_child_depth_from(f, 1, 0)

RECURSIVE collect_all_nodes_recursive(_), collect_children_from(_, _)
collect_all_nodes_recursive(nd) == <<nd>> \o collect_children_from(nd.children, 1)

collect_children_from(cs, i) ==
  IF i > Len(cs) THEN <<>>
  ELSE collect_all_nodes_recursive(cs[i]) \o collect_children_from(cs, i + 1)

\* every node of the forest, in pre-order
collect_all_nodes(f) == collect_children_from(f, 1)

\* the paths of all nodes below the child array cs, whose owner is at prefix
RECURSIVE PathsFrom(_, _)
PathsFrom(cs, prefix) ==
  UNION {{Append(prefix, i)} \cup PathsFrom(cs[i].children, Append(prefix, i)) :
           i \in DOMAIN cs}

AllPaths(f) == PathsFrom(f, <<>>)

RECURSIVE NodeAt(_, _)
NodeAt(cs, p) == IF Len(p) = 1 THEN cs[p[1]] ELSE NodeAt(cs[p[1]].children, Tail(p))

\* min and max are pointers: here the names of the cells of mem they point
\* to, which may be one and the same cell
RECURSIVE find_weight_range_recursive(_, _, _, _), find_weight_range_children(_, _, _, _, _)
find_weight_range_recursive(nd, mem, min, max) ==
  LET m1 == IF nd.weight < mem[min] THEN [mem EXCEPT ![min] = nd.weight] ELSE mem
      m2 == IF nd.weight > m1[max] THEN [m1 EXCEPT ![max] = nd.weight] ELSE m1
  IN find_weight_range_children(nd.children, m2, min, max, 1)

find_weight_range_children(cs, mem, min, max, i) ==
  IF i > Len(cs) THEN mem
  ELSE find_weight_range_children(
         cs, find_weight_range_recursive(cs[i], mem, min, max), min, max, i + 1)

\* forest_min_weight passes &min for both pointers
forest_min_weight(f) ==
  IF Len(f) = 0 THEN 0
  ELSE find_weight_range_children(f, [min |-> f[1].weight], "min", "min", 1).min

RECURSIVE max_weight_roots(_, _, _)
max_weight_roots(f, max, i) ==
  IF i > Len(f) THEN max
  ELSE max_weight_roots(f, IF f[i].weight > max THEN f[i].weight ELSE max, i + 1)

forest_max_weight(f) ==
  IF Len(f) = 0 THEN 0 ELSE max_weight_roots(f, f[1].weight, 1)

(* ------------------------------- queries ------------------------------ *)
\* find_top_k: st = [result, queue, front]; back is Len(queue), count is
\* Len(result); front is the index of the next queue slot to read
\* the root loop without its count < k test
RECURSIVE topk_roots_no_limit(_, _, _, _)
topk_roots_no_limit(f, k, i, st) ==
  IF i <= Len(f)
  THEN topk_roots_no_limit(f, k, i + 1,
         [st EXCEPT !.result = Append(@, <<i>>), !.queue = Append(@, <<i>>)])
  ELSE st

RECURSIVE topk_roots(_, _, _, _)
topk_roots(f, k, i, st) ==
  IF i <= Len(f) /\ Len(st.result) < k
  THEN topk_roots(f, k, i + 1,
         [st EXCEPT !.result = Append(@, <<i>>), !.queue = Append(@, <<i>>)])
  ELSE st

RECURSIVE topk_children(_, _, _, _, _)
topk_children(f, k, curr, i, st) ==
  IF i <= Len(NodeAt(f, curr).children) /\ Len(st.result) < k
  THEN topk_children(f, k, curr, i + 1,
         [st EXCEPT !.result = Append(@, Append(curr, i)),
                    !.queue = IF Len(st.queue) < k * 10
                              THEN Append(@, Append(curr, i)) ELSE @])
  ELSE st

RECURSIVE topk_loop(_, _, _)
topk_loop(f, k, st) ==
  IF st.front <= Len(st.queue) /\ Len(st.result) < k
  THEN topk_loop(f, k,
         topk_children(f, k, st.queue[st.front], 1, [st EXCEPT !.front = @ + 1]))
  ELSE st

\* the result array of find_top_k(f, k, &result_count), as paths
find_top_k(f, k) ==
  IF k <= 0 \/ Len(f) = 0 THEN <<>>
  ELSE topk_loop(f, k,
         topk_roots(f, k, 1, [result |-> <<>>, queue |-> <<>>, front |-> 1])).result

RECURSIVE count_by_threshold_recursive(_, _), count_by_threshold_children(_, _, _)
count_by_threshold_recursive(nd, threshold) ==
  IF nd.weight < threshold THEN 0
  ELSE 1 + count_by_threshold_children(nd.children, threshold, 1)

count_by_threshold_children(cs, threshold, i) ==
  IF i > Len(cs) THEN 0
  ELSE count_by_threshold_recursive(cs[i], threshold)
       + count_by_threshold_children(cs, threshold, i + 1)

find_by_weight_threshold(f, threshold) == count_by_threshold_children(f, threshold, 1)

RECURSIVE collect_supersets_recursive(_, _, _), collect_supersets_children(_, _, _, _)
collect_supersets_recursive(f, p, query) ==
  IF is_subset(query, NodeAt(f, p).verts)
  THEN <<p>> \o collect_supersets_children(f, p, query, 1)
  ELSE <<>>

collect_supersets_children(f, p, query, i) ==
  IF i > Len(IF p = <<>> THEN f ELSE NodeAt(f, p).children) THEN <<>>
  ELSE collect_supersets_recursive(f, Append(p, i), query)
       \o collect_supersets_children(f, p, query, i + 1)

\* the result array of find_all_supersets, as paths
find_all_supersets(f, query) == collect_supersets_children(f, <<>>, query, 1)

\* best so far is a path, <<>> for NULL
RECURSIVE find_heaviest_superset_recursive(_, _, _, _), heaviest_superset_children(_, _, _, _, _)
find_heaviest_superset_recursive(f, p, query, best) ==
  IF is_subset(query, NodeAt(f, p).verts)
  THEN heaviest_superset_children(f, p, query,
         IF best = <<>> \/ NodeAt(f, p).weight > NodeAt(f, best).weight THEN p ELSE best,
         1)
  ELSE best

heaviest_superset_children(f, p, query, best, i) ==
  IF i > Len(IF p = <<>> THEN f ELSE NodeAt(f, p).children) THEN best
  ELSE LET child_best == find_heaviest_superset_recursive(f, Append(p, i), query, best)
       IN heaviest_superset_children(f, p, query,
            IF child_best # <<>>
               /\ (best = <<>> \/ NodeAt(f, child_best).weight > NodeAt(f, best).weight)
            THEN child_best ELSE best,
            i + 1)

\* the node find_heaviest_superset returns, as a path; <<>> for NULL
find_heaviest_superset(f, query) == heaviest_superset_children(f, <<>>, query, <<>>, 1)

RECURSIVE collect_by_weight_range_recursive(_, _, _, _), collect_by_weight_range_children(_, _, _, _, _)
collect_by_weight_range_recursive(f, p, min_w, max_w) ==
  LET nd == NodeAt(f, p)
  IN (IF nd.weight >= min_w /\ nd.weight <= max_w THEN <<p>> ELSE <<>>)
     \o (IF nd.weight >= min_w
         THEN collect_by_weight_range_children(f, p, min_w, max_w, 1)
         ELSE <<>>)

collect_by_weight_range_children(f, p, min_w, max_w, i) ==
  IF i > Len(NodeAt(f, p).children) THEN <<>>
  ELSE collect_by_weight_range_recursive(f, Append(p, i), min_w, max_w)
       \o collect_by_weight_range_children(f, p, min_w, max_w, i + 1)

RECURSIVE weight_range_roots(_, _, _, _)
weight_range_roots(f, min_weight, max_weight, i) ==
  IF i > Len(f) THEN <<>>
  ELSE (IF f[i].weight >= min_weight
        THEN collect_by_weight_range_recursive(f, <<i>>, min_weight, max_weight)
        ELSE <<>>)
       \o weight_range_roots(f, min_weight, max_weight, i + 1)

\* the result array of find_by_weight_range, as paths
find_by_weight_range(f, min_weight, max_weight) ==
  weight_range_roots(f, min_weight, max_weight, 1)

contains_all_vertices(verts, query) == is_subset(query, verts)

RECURSIVE collect_containing_vertices_recursive(_, _, _), collect_containing_children(_, _, _, _)
collect_containing_vertices_recursive(f, p, vertices) ==
  IF contains_all_vertices(NodeAt(f, p).verts, vertices)
  THEN <<p>> \o collect_containing_children(f, p, vertices, 1)
  ELSE <<>>

collect_containing_children(f, p, vertices, i) ==
  IF i > Len(IF p = <<>> THEN f ELSE NodeAt(f, p).children) THEN <<>>
  ELSE collect_containing_vertices_recursive(f, Append(p, i), vertices)
       \o collect_containing_children(f, p, vertices, i + 1)

\* the result array of find_containing_vertices, as paths
find_containing_vertices(f, vertices) == collect_containing_children(f, <<>>, vertices, 1)

RECURSIVE verify_weight_monotonicity(_), verify_children_from(_, _)
verify_weight_monotonicity(nd) == verify_children_from(nd, 1)

verify_children_from(nd, i) ==
  IF i > Len(nd.children) THEN 1
  ELSE IF nd.children[i].weight > nd.weight + EPSILON THEN 0
  ELSE IF verify_weight_monotonicity(nd.children[i]) = 0 THEN 0
  ELSE verify_children_from(nd, i + 1)

RECURSIVE verify_roots_from(_, _)
verify_roots_from(f, i) ==
  IF i > Len(f) THEN 1
  ELSE IF verify_weight_monotonicity(f[i]) = 0 THEN 0
  ELSE verify_roots_from(f, i + 1)

verify_forest(f) == verify_roots_from(f, 1)

(* ------------------------------ traversal ----------------------------- *)
\* The visitor is modelled by the call on which it first returns non-zero
\* (stop_on = 0: it never does).  A traversal yields the nodes it passed to
\* the visitor, in call order.
\* the child loop with the queue taken to be full one slot early
RECURSIVE bfs_push_children_one_short(_, _, _, _, _)
bfs_push_children_one_short(f, curr, total, queue, i) ==
  IF i > Len(NodeAt(f, curr).children) THEN queue
  ELSE bfs_push_children_one_short(f, curr, total,
         IF Len(queue) < total - 1 THEN Append(queue, Append(curr, i)) ELSE queue, i + 1)

RECURSIVE bfs_push_children(_, _, _, _, _)
bfs_push_children(f, curr, total, queue, i) ==
  IF i > Len(NodeAt(f, curr).children) THEN queue
  ELSE bfs_push_children(f, curr, total,
         IF Len(queue) < total THEN Append(queue, Append(curr, i)) ELSE queue, i + 1)

RECURSIVE bfs_loop(_, _, _, _, _, _)
bfs_loop(f, stop_on, total, queue, front, visited) ==
  IF front <= Len(queue)
  THEN LET curr == queue[front]
           calls == Append(visited, curr)
       IN IF Len(calls) = stop_on THEN calls
          ELSE bfs_loop(f, stop_on, total,
                        bfs_push_children(f, curr, total, queue, 1), front + 1, calls)
  ELSE visited

forest_traverse_bfs(f, stop_on) ==
  LET total == count_total_nodes(f)
  IN IF total = 0 THEN <<>>
     ELSE bfs_loop(f, stop_on, total, [i \in 1 .. Len(f) |-> <<i>>], 1, <<>>)

\* the child loop of dfs_helper with the recursive call's result ignored
RECURSIVE dfs_children_ignore_result(_, _, _, _, _)
dfs_children_ignore_result(f, p, stop_on, calls, i) ==
  IF i > Len(NodeAt(f, p).children) THEN [ret |-> 0, calls |-> calls]
  ELSE LET c == Append(calls, Append(p, i))
           below == IF Len(c) = stop_on THEN [ret |-> 1, calls |-> c]
                    ELSE dfs_children_ignore_result(f, Append(p, i), stop_on, c, 1)
       IN dfs_children_ignore_result(f, p, stop_on, below.calls, i + 1)

\* dfs_helper returns [ret, calls]: its return value and the visitor calls
\* made so far
RECURSIVE dfs_helper(_, _, _, _), dfs_children(_, _, _, _, _)
dfs_helper(f, p, stop_on, calls) ==
  LET c == Append(calls, p)
  IN IF Len(c) = stop_on THEN [ret |-> 1, calls |-> c]
     ELSE dfs_children(f, p, stop_on, c, 1)

dfs_children(f, p, stop_on, calls, i) ==
  IF i > Len(NodeAt(f, p).children) THEN [ret |-> 0, calls |-> calls]
  ELSE LET r == dfs_helper(f, Append(p, i), stop_on, calls)
       IN IF r.ret # 0 THEN [ret |-> 1, calls |-> r.calls]
          ELSE dfs_children(f, p, stop_on, r.calls, i + 1)

RECURSIVE dfs_roots(_, _, _, _)
dfs_roots(f, stop_on, calls, i) ==
  IF i > Len(f) THEN calls
  ELSE LET r == dfs_helper(f, <<i>>, stop_on, calls)
       IN IF r.ret # 0 THEN r.calls ELSE dfs_roots(f, stop_on, r.calls, i + 1)

forest_traverse_dfs(f, stop_on) == dfs_roots(f, stop_on, <<>>, 1)

(* ----------------------------- maintenance ---------------------------- *)
\* the comparison reversed: lightest first
cmp_by_weight_asc(na, nb) ==
  IF na.weight < nb.weight THEN -1 ELSE IF na.weight > nb.weight THEN 1 ELSE 0

cmp_by_weight_desc(na, nb) ==
  IF na.weight > nb.weight THEN -1 ELSE IF na.weight < nb.weight THEN 1 ELSE 0

\* cmp_by_weight_desc(a, b) <= 0
WeightDescInOrder(na, nb) == cmp_by_weight_desc(na, nb) <= 0

RECURSIVE sorted_nodes_from(_, _, _)
sorted_nodes_from(s, idxs, prev) ==
  IF idxs = {} THEN {<<>>}
  ELSE UNION {{<<s[i]>> \o t : t \in sorted_nodes_from(s, idxs \ {i}, i)} :
                i \in {j \in idxs : prev = 0 \/ WeightDescInOrder(s[prev], s[j])}}

\* qsort(all_nodes, total, sizeof(Node*), cmp_by_weight_desc): any
\* permutation in non-increasing weight order; qsort leaves the order of
\* equal weights unspecified
qsort_cmp_by_weight_desc(s) == sorted_nodes_from(s, DOMAIN s, 0)

\* the array collect_all_nodes fills, as pointers: each node's path with
\* the weight the comparator reads through it, in pre-order
RECURSIVE collect_ptrs_from(_, _, _)
collect_ptrs_from(f, p, i) ==
  IF i > Len(IF p = <<>> THEN f ELSE NodeAt(f, p).children) THEN <<>>
  ELSE <<[ptr |-> Append(p, i), weight |-> NodeAt(f, Append(p, i)).weight]>>
       \o collect_ptrs_from(f, Append(p, i), 1)
       \o collect_ptrs_from(f, p, i + 1)

RECURSIVE by_weight_loop(_, _, _, _)
by_weight_loop(all_nodes, stop_on, calls, i) ==
  IF i > Len(all_nodes) THEN calls
  ELSE LET c == Append(calls, all_nodes[i].ptr)
       IN IF Len(c) = stop_on THEN c ELSE by_weight_loop(all_nodes, stop_on, c, i + 1)

\* the possible call sequences of forest_traverse_by_weight, one per order
\* qsort may leave equal weights in
forest_traverse_by_weight(f, stop_on) ==
  LET all_nodes == collect_ptrs_from(f, <<>>, 1)
  IN IF Len(all_nodes) = 0 THEN {<<>>}
     ELSE {by_weight_loop(sorted, stop_on, <<>>, 1) :
             sorted \in qsort_cmp_by_weight_desc(all_nodes)}

RECURSIVE overlap_size_from(_, _, _, _, _)
overlap_size_from(A, B, i, j, count) ==
  IF i <= Len(A) /\ j <= Len(B)
  THEN IF A[i] = B[j] THEN overlap_size_from(A, B, i + 1, j + 1, count + 1)
       ELSE IF A[i] < B[j] THEN overlap_size_from(A, B, i + 1, j, count)
       ELSE overlap_size_from(A, B, i, j + 1, count)
  ELSE count

overlap_size(A, B) == overlap_size_from(A, B, 1, 1, 0)

\* a ratio of two counts up to MaxLen is kept as an integer: ratio * RatioUnit
RatioUnit == LcmUpTo(MaxLen)

\* the ratio taken over the first array's size, not the smaller size
overlap_ratio_of_first(A, B) ==
  IF Len(A) > 0 THEN (overlap_size(A, B) * RatioUnit) \div Len(A) ELSE 0

overlap_ratio(A, B) ==
  LET overlap == overlap_size(A, B)
      min_size == IF Len(A) < Len(B) THEN Len(A) ELSE Len(B)
  IN IF min_size > 0 THEN (overlap * RatioUnit) \div min_size ELSE 0

cmp_similarity(pa, pb) ==
  IF pa.similarity > pb.similarity THEN -1
  ELSE IF pa.similarity < pb.similarity THEN 1 ELSE 0

RECURSIVE sorted_pairs_from(_, _, _)
sorted_pairs_from(s, idxs, prev) ==
  IF idxs = {} THEN {<<>>}
  ELSE UNION {{<<s[i]>> \o t : t \in sorted_pairs_from(s, idxs \ {i}, i)} :
                i \in {j \in idxs : prev = 0 \/ cmp_similarity(s[prev], s[j]) <= 0}}

\* qsort(pairs, all_count, sizeof(SimilarityPair), cmp_similarity)
qsort_cmp_similarity(pairs) == sorted_pairs_from(pairs, DOMAIN pairs, 0)

\* the possible result arrays of find_k_most_similar for k >= 0, as paths
find_k_most_similar(f, query, k) ==
  LET all_nodes == collect_ptrs_from(f, <<>>, 1)
      all_count == Len(all_nodes)
      pairs == [i \in 1 .. all_count |->
                  [node |-> all_nodes[i].ptr,
                   similarity |-> overlap_ratio(query, NodeAt(f, all_nodes[i].ptr).verts)]]
      result_size == IF k < all_count THEN k ELSE all_count
  IN IF all_count = 0 THEN {<<>>}
     ELSE {[i \in 1 .. result_size |-> sorted[i].node] :
             sorted \in qsort_cmp_similarity(pairs)}

RECURSIVE reinsert_from(_, _, _)
reinsert_from(f, all_nodes, i) ==
  IF i > Len(all_nodes) THEN f
  ELSE reinsert_from(
         forest_insert_node(f, [all_nodes[i] EXCEPT !.children = <<>>]), all_nodes, i + 1)

\* the body of forest_rebalance once the nodes are collected: sort, unlink,
\* reinsert.  The possible forests, one per order qsort may leave ties in.
rebalance_nodes(all_nodes) ==
  IF Len(all_nodes) = 0 THEN {<<>>}
  ELSE {reinsert_from(<<>>, sorted, 1) : sorted \in qsort_cmp_by_weight_desc(all_nodes)}

forest_rebalance(f) == rebalance_nodes(collect_all_nodes(f))

vertices_equal(a, b) ==
  Len(a) = Len(b) /\ \A i \in 1 .. Len(a) : a[i] = b[i]

\* the inner loop without the processed[j] = 1 mark
RECURSIVE merge_inner_no_mark(_, _, _, _, _)
merge_inner_no_mark(all_nodes, acc, i, j, keep_max) ==
  IF j > Len(all_nodes) THEN acc
  ELSE IF j \in acc.processed THEN merge_inner_no_mark(all_nodes, acc, i, j + 1, keep_max)
  ELSE IF vertices_equal(all_nodes[i].verts, all_nodes[j].verts)
  THEN merge_inner_no_mark(all_nodes,
         [new_weight |-> IF keep_max # 0
                         THEN (IF all_nodes[j].weight > acc.new_weight
                               THEN all_nodes[j].weight ELSE acc.new_weight)
                         ELSE acc.new_weight + all_nodes[j].weight,
          dup_count |-> acc.dup_count + 1,
          processed |-> acc.processed,
          merged_count |-> acc.merged_count + 1],
         i, j + 1, keep_max)
  ELSE merge_inner_no_mark(all_nodes, acc, i, j + 1, keep_max)

\* inner loop of forest_merge_duplicates for leader i, from index j on
RECURSIVE merge_inner(_, _, _, _, _)
merge_inner(all_nodes, acc, i, j, keep_max) ==
  IF j > Len(all_nodes) THEN acc
  ELSE IF j \in acc.processed THEN merge_inner(all_nodes, acc, i, j + 1, keep_max)
  ELSE IF vertices_equal(all_nodes[i].verts, all_nodes[j].verts)
  THEN merge_inner(all_nodes,
         [new_weight |-> IF keep_max # 0
                         THEN (IF all_nodes[j].weight > acc.new_weight
                               THEN all_nodes[j].weight ELSE acc.new_weight)
                         ELSE acc.new_weight + all_nodes[j].weight,
          dup_count |-> acc.dup_count + 1,
          processed |-> acc.processed \cup {j},
          merged_count |-> acc.merged_count + 1],
         i, j + 1, keep_max)
  ELSE merge_inner(all_nodes, acc, i, j + 1, keep_max)

\* outer loop: [all_nodes (weights rewritten), merged_count]
RECURSIVE merge_outer(_, _, _, _, _)
merge_outer(all_nodes, processed, merged_count, i, keep_max) ==
  IF i > Len(all_nodes) THEN [all_nodes |-> all_nodes, merged_count |-> merged_count]
  ELSE IF i \in processed
  THEN merge_outer(all_nodes, processed, merged_count, i + 1, keep_max)
  ELSE LET acc == merge_inner(all_nodes,
                    [new_weight |-> all_nodes[i].weight, dup_count |-> 1,
                     processed |-> processed \cup {i}, merged_count |-> merged_count],
                    i, i + 1, keep_max)
           new_weight == IF keep_max = 0 /\ acc.dup_count > 1
                         THEN acc.new_weight \div acc.dup_count
                         ELSE acc.new_weight
       IN merge_outer([all_nodes EXCEPT ![i].weight = new_weight],
                      acc.processed, acc.merged_count, i + 1, keep_max)

\* the possible [forest, ret] after forest_merge_duplicates(f, keep_max)
forest_merge_duplicates(f, keep_max) ==
  LET all_nodes == collect_all_nodes(f)
  IN IF Len(all_nodes) <= 1 THEN {[forest |-> f, ret |-> 0]}
     ELSE LET m == merge_outer(all_nodes, {}, 0, 1, keep_max)
          IN IF m.merged_count > 0
             THEN {[forest |-> f2, ret |-> m.merged_count] :
                     f2 \in rebalance_nodes(m.all_nodes)}
             ELSE {[forest |-> f, ret |-> 0]}

should_prune(nd, threshold) == nd.weight < threshold

\* prune_node_children from child index i on: [node, removed]
RECURSIVE prune_node_children(_, _, _, _)
prune_node_children(nd, threshold, removed_count, i) ==
  IF i > Len(nd.children) THEN [node |-> nd, removed |-> removed_count]
  ELSE IF should_prune(nd.children[i], threshold)
  THEN prune_node_children([nd EXCEPT !.children = RemoveAt(@, i)],
                           threshold, removed_count + 1, i)
  ELSE LET sub == prune_node_children(nd.children[i], threshold, removed_count, 1)
       IN prune_node_children([nd EXCEPT !.children = ReplaceAt(@, i, sub.node)],
                              threshold, sub.removed, i + 1)

RECURSIVE prune_roots(_, _, _, _)
prune_roots(f, threshold, removed_count, i) ==
  IF i > Len(f) THEN [forest |-> f, ret |-> removed_count]
  ELSE IF should_prune(f[i], threshold)
  THEN prune_roots(forest_remove_root_at(f, i), threshold, removed_count + 1, i)
  ELSE LET sub == prune_node_children(f[i], threshold, removed_count, 1)
       IN prune_roots(ReplaceAt(f, i, sub.node), threshold, sub.removed, i + 1)

\* [forest, ret] after forest_prune_by_weight(f, threshold)
forest_prune_by_weight(f, threshold) == prune_roots(f, threshold, 0, 1)

\* the possible forests after forest_optimize(f)
forest_optimize(f) ==
  UNION {forest_rebalance(m.forest) : m \in forest_merge_duplicates(f, 1)}

\* the possible forests after forest_insert_batch(f, edges, nedges)
RECURSIVE forest_insert_batch(_, _, _)
forest_insert_batch(f, edges, i) ==
  IF i > Len(edges) THEN {f}
  ELSE UNION {forest_insert_batch(f2, edges, i + 1) :
                f2 \in insert_hyperedge(f, edges[i].verts, edges[i].weight)}

\* qsort(edges, nedges, sizeof(Hyperedge), cmp_by_weight_desc): the
\* comparator takes each Hyperedge for a Node*, follows its first word (the
\* verts pointer) and reads a double 16 bytes into the vertex array, not the
\* edge's weight.  What it compares is outside this program's control, so
\* the array may come back in any order.
RECURSIVE any_order_from(_, _)
any_order_from(s, idxs) ==
  IF idxs = {} THEN {<<>>}
  ELSE UNION {{<<s[i]>> \o t : t \in any_order_from(s, idxs \ {i})} : i \in idxs}

qsort_hyperedges_cmp_by_weight_desc(edges) == any_order_from(edges, DOMAIN edges)

\* the possible forests forest_build_bulk(edges, nedges) returns
forest_build_bulk(edges) ==
  UNION {forest_insert_batch(<<>>, sorted, 1) :
           sorted \in qsort_hyperedges_cmp_by_weight_desc(edges)}

(* ---------------------------- serialization ---------------------------- *)
\* A file is a sequence of bytes.  fwrite copies an object's bytes out and
\* fread copies them back: an int is 4 bytes, least significant first, in
\* two's complement; a double is 8 bytes, here the bytes of the integer
\* that stands for the weight.
Byte(v, k) == (v \div Pow(256, k)) % 256

IntBytes(v) ==
  IF v >= 0
  THEN <<Byte(v, 0), Byte(v, 1), Byte(v, 2), Byte(v, 3)>>
  ELSE LET u == (v + 1) + INT_MAX
       IN <<Byte(u, 0), Byte(u, 1), Byte(u, 2), Byte(u, 3) + 128>>

DoubleBytes(w) == IntBytes(w) \o <<0, 0, 0, 0>>

IntOfBytes(b) ==
  LET low == b[1] + 256 * b[2] + 65536 * b[3]
  IN IF b[4] < 128 THEN low + 16777216 * b[4]
     ELSE ((low + 16777216 * (b[4] - 128)) - INT_MAX) - 1

DoubleOfBytes(b) == IntOfBytes(SubSeq(b, 1, 4))

RECURSIVE write_ints(_, _)
write_ints(a, i) ==
  IF i > Len(a) THEN <<>> ELSE IntBytes(a[i]) \o write_ints(a, i + 1)

\* the child loop run from the last child to the first
RECURSIVE write_children_reversed(_, _)
write_children_reversed(nodes, i) ==
  IF i > Len(nodes) THEN <<>>
  ELSE write_children_reversed(nodes, i + 1) \o IntBytes(Len(nodes[i].verts))
       \o write_ints(nodes[i].verts, 1) \o DoubleBytes(nodes[i].weight)
       \o IntBytes(Len(nodes[i].children)) \o write_children_reversed(nodes[i].children, 1)

\* the bytes write_node appends to the file
RECURSIVE write_node(_), write_children(_, _)
write_node(nd) ==
  IntBytes(Len(nd.verts))
  \o write_ints(nd.verts, 1)
  \o DoubleBytes(nd.weight)
  \o IntBytes(Len(nd.children))
  \o write_children(nd.children, 1)

write_children(nodes, i) ==
  IF i > Len(nodes) THEN <<>>
  ELSE write_node(nodes[i]) \o write_children(nodes, i + 1)

\* the content of the file after forest_save(f, filename) has returned 0
forest_save(f) == IntBytes(Len(f)) \o write_children(f, 1)

\* fread with its return value ignored: the items a short read left unread
\* are taken as zero bytes
fread_zero_fill(file, pos, size, nitems) ==
  [n |-> nitems,
   bytes |-> [k \in 1 .. nitems * size |-> IF pos + k <= Len(file) THEN file[pos + k] ELSE 0],
   pos |-> Min(Len(file), pos + nitems * size)]

\* fread(buf, size, nitems, fp) at file position pos: the number of whole
\* items read, their bytes, and the position afterwards
fread(file, pos, size, nitems) ==
  LET avail == (Len(file) - pos) \div size
      n == Min(nitems, avail)
  IN [n |-> n,
      bytes |-> SubSeq(file, pos + 1, pos + n * size),
      pos |-> Min(Len(file), pos + nitems * size)]

RECURSIVE read_ints(_, _, _)
read_ints(bytes, n, i) ==
  IF i > n THEN <<>>
  ELSE <<IntOfBytes(SubSeq(bytes, 4 * i - 3, 4 * i))>> \o read_ints(bytes, n, i + 1)

\* read_node's return value is [ok |-> FALSE, pos] for NULL, otherwise
\* [ok |-> TRUE, node, pos]
NoNode(pos) == [ok |-> FALSE, node |-> <<>>, pos |-> pos]

RECURSIVE read_node(_, _), read_children(_, _, _, _, _)
read_node(file, pos) ==
  LET r_nverts == fread(file, pos, 4, 1)
      nverts == IntOfBytes(r_nverts.bytes)
  IN IF r_nverts.n # 1 THEN NoNode(r_nverts.pos)
     ELSE IF nverts < 0 THEN NoNode(r_nverts.pos)  \* no malloc of that size
     ELSE
       LET r_verts == fread(file, r_nverts.pos, 4, nverts)
       IN IF r_verts.n # nverts THEN NoNode(r_verts.pos)
          ELSE
            LET r_weight == fread(file, r_verts.pos, 8, 1)
            IN IF r_weight.n # 1 THEN NoNode(r_weight.pos)
               ELSE
                 LET nd == node_create(read_ints(r_verts.bytes, nverts, 1),
                                       DoubleOfBytes(r_weight.bytes))
                     r_nchildren == fread(file, r_weight.pos, 4, 1)
                 IN IF r_nchildren.n # 1 THEN NoNode(r_nchildren.pos)
                    ELSE read_children(file, r_nchildren.pos, nd,
                                       IntOfBytes(r_nchildren.bytes), 0)

read_children(file, pos, nd, nchildren, i) ==
  IF i >= nchildren THEN [ok |-> TRUE, node |-> nd, pos |-> pos]
  ELSE LET child == read_node(file, pos)
       IN IF ~child.ok THEN NoNode(child.pos)
          ELSE read_children(file, child.pos, node_add_child(nd, child.node),
                             nchildren, i + 1)

RECURSIVE load_roots(_, _, _, _, _)
load_roots(file, pos, f, nroots, i) ==
  IF i >= nroots THEN [ok |-> TRUE, forest |-> f]
  ELSE LET root == read_node(file, pos)
       IN IF ~root.ok THEN [ok |-> FALSE, forest |-> <<>>]
          ELSE load_roots(file, root.pos, forest_add_root(f, root.node), nroots, i + 1)

\* forest_load on a file that opens: [ok |-> FALSE] for NULL, otherwise the
\* forest returned
forest_load(file) ==
  LET r_nroots == fread(file, 0, 4, 1)
  IN IF r_nroots.n # 1 THEN [ok |-> FALSE, forest |-> <<>>]
     ELSE load_roots(file, r_nroots.pos, <<>>, IntOfBytes(r_nroots.bytes), 0)

(* ------------------------------ the machine ---------------------------- *)
HE(raw, w) == [verts |-> Range(raw), weight |-> w]

NodeWeights(f) == {nd.weight : nd \in Range(collect_all_nodes(f))}

\* a threshold on every side of every weight present
ThresholdsOf(f) == {0} \cup NodeWeights(f) \cup {w + 1 : w \in NodeWeights(f)}

\* the arrays a batch call is given: edges with short vertex lists
Edges == [verts : SeqsUpTo(Verts, MaxBatchLen), weight : Weights]


Mixed == [only |-> FALSE, bag |-> EmptyBag]

RECURSIVE BagOfEdges(_, _)
BagOfEdges(edges, i) ==
  IF i > Len(edges) THEN EmptyBag
  ELSE IF edges[i].verts = <<>> THEN BagOfEdges(edges, i + 1)
  ELSE SetToBag({HE(edges[i].verts, edges[i].weight)}) (+) BagOfEdges(edges, i + 1)

Init ==
  /\ forest = <<>>
  /\ inserted = [only |-> TRUE, bag |-> EmptyBag]
  /\ means = 0

InsertHE ==
  \E raw \in RawLists, w \in Weights :
    /\ count_total_nodes(forest) < MaxNodes
    /\ forest' \in insert_hyperedge(forest, raw, w)
    /\ inserted' = IF inserted.only
                   THEN [inserted EXCEPT !.bag = @ (+) BagOfEdges(<<[verts |-> raw, weight |-> w]>>, 1)]
                   ELSE inserted
    /\ UNCHANGED means

InsertBatch ==
  \E nedges \in 0 .. Min(MaxBatch, MaxNodes - count_total_nodes(forest)) :
  \E edges \in [1 .. nedges -> Edges] :
    /\ forest' \in forest_insert_batch(forest, edges, 1)
    /\ inserted' = IF inserted.only
                   THEN [inserted EXCEPT !.bag = @ (+) BagOfEdges(edges, 1)]
                   ELSE inserted
    /\ UNCHANGED means

\* forest_build_bulk makes its own forest: it takes the place of an empty one
BuildBulk ==
  \E nedges \in 0 .. Min(MaxBatch, MaxNodes) :
  \E edges \in [1 .. nedges -> Edges] :
    /\ forest = <<>>
    /\ forest' \in forest_build_bulk(edges)
    /\ inserted' = [only |-> TRUE, bag |-> BagOfEdges(edges, 1)]
    /\ UNCHANGED means

Rebalance ==
  /\ forest' \in forest_rebalance(forest)
  /\ inserted' = Mixed
  /\ UNCHANGED means

MergeDuplicates ==
  \E keep_max \in {0, 1} :
    /\ keep_max = 0 => means < MaxMeans
    /\ \E m \in forest_merge_duplicates(forest, keep_max) :
         /\ forest' = m.forest
         /\ means' = IF keep_max = 0 /\ m.ret > 0 THEN means + 1 ELSE means
    /\ inserted' = Mixed

PruneByWeight ==
  \E threshold \in ThresholdsOf(forest) :
    /\ forest' = forest_prune_by_weight(forest, threshold).forest
    /\ inserted' = Mixed
    /\ UNCHANGED means

Optimize ==
  /\ forest' \in forest_optimize(forest)
  /\ inserted' = Mixed
  /\ UNCHANGED means

Next ==
  \/ InsertHE
  \/ InsertBatch
  \/ BuildBulk
  \/ Rebalance
  \/ MergeDuplicates
  \/ PruneByWeight
  \/ Optimize

Spec == Init /\ [][Next]_vars

(* ---- insert_hyperedge over the whole int range (normalisation) ---- *)
WideVals == {INT_MIN, -1, 0, 1, INT_MAX}

WideLists == SeqsUpTo(WideVals, MaxLen)

InsertWide ==
  \E raw \in WideLists, w \in Weights :
    /\ count_total_nodes(forest) < MaxWideNodes
    /\ forest' \in insert_hyperedge(forest, raw, w)
    /\ inserted' = [inserted EXCEPT !.bag = @ (+) BagOfEdges(<<[verts |-> raw, weight |-> w]>>, 1)]
    /\ UNCHANGED means

NextWide == InsertWide

SpecWide == Init /\ [][NextWide]_vars

(* ---- the nested sets {1}, {1,2}, ..., {1..ChainLen}, in any order ---- *)
\* weights in steps of half the tolerance
ChainWeights == {k * (Scale \div 2) : k \in 0 .. MaxChainWeight}

Asc(k) == [i \in 1 .. k |-> i]

Desc(k) == [i \in 1 .. k |-> k + 1 - i]

\* insert {1..k}, not inserted yet, with a weight that keeps the weights
\* strictly increasing with set size
InsertChain ==
  \E k \in 1 .. ChainLen, w \in ChainWeights :
    /\ \A e \in BagToSet(inserted.bag) :
         /\ Cardinality(e.verts) # k
         /\ Cardinality(e.verts) < k => e.weight < w
         /\ Cardinality(e.verts) > k => e.weight > w
    /\ \E raw \in {Asc(k), Desc(k)} :
         /\ forest' \in insert_hyperedge(forest, raw, w)
         /\ inserted' = [inserted EXCEPT !.bag = @ (+) BagOfEdges(<<[verts |-> raw, weight |-> w]>>, 1)]
    /\ UNCHANGED means

NextChain == InsertChain

SpecChain == Init /\ [][NextChain]_vars

(* ---- hyperedges whose weights pairwise differ by more than EPSILON ---- *)
\* weights in steps of half the tolerance
ApartWeights == {k * (Scale \div 2) : k \in 0 .. MaxApartWeight}

Abs(x) == IF x < 0 THEN -x ELSE x

\* insert a hyperedge whose weight is more than EPSILON away from every
\* weight in the forest
InsertApart ==
  \E raw \in RawLists, w \in ApartWeights :
    /\ count_total_nodes(forest) < MaxApartNodes
    /\ \A v \in NodeWeights(forest) : Abs(w - v) > EPSILON
    /\ forest' \in insert_hyperedge(forest, raw, w)
    /\ inserted' = IF inserted.only
                   THEN [inserted EXCEPT !.bag = @ (+) BagOfEdges(<<[verts |-> raw, weight |-> w]>>, 1)]
                   ELSE inserted
    /\ UNCHANGED means

NextApart == InsertApart \/ Rebalance

SpecApart == Init /\ [][NextApart]_vars

(* ------------------------------- claims ------------------------------- *)
\* the <<parent, child>> pairs of the forest
ParentChild(f) ==
  UNION {{<<nd, nd.children[i]>> : i \in DOMAIN nd.children} :
           nd \in Range(collect_all_nodes(f))}

RECURSIVE BagOfNodes(_, _)
BagOfNodes(all_nodes, i) ==
  IF i > Len(all_nodes) THEN EmptyBag
  ELSE SetToBag({[verts |-> Range(all_nodes[i].verts), weight |-> all_nodes[i].weight]})
       (+) BagOfNodes(all_nodes, i + 1)

\* the multiset of (vertex set, weight) pairs the forest holds
NodeBag(f) == BagOfNodes(collect_all_nodes(f), 1)

StrictlyIncreasing(s) == \A i \in 1 .. Len(s) - 1 : s[i] < s[i + 1]

\* C1: after any sequence of inserts, batch inserts, rebalances, duplicate
\* merges (either policy), prunes and optimizes on an empty forest, every
\* child's weight is at most its parent's weight plus the tolerance, and
\* verify_forest returns 1.
C1_WeightMonotonicity ==
  /\ \A pc \in ParentChild(forest) : pc[2].weight <= pc[1].weight + EPSILON
  /\ verify_forest(forest) = 1

\* a forest that maintenance has rewritten, after a mean merge, in which a
\* child is heavier than its parent (inside the tolerance)
C1_Witness ==
  /\ ~inserted.only
  /\ means > 0
  /\ \E pc \in ParentChild(forest) : pc[2].weight > pc[1].weight

\* C2: in a forest built by insert_hyperedge calls alone, every non-root
\* node's vertex set is a subset of its parent's.
C2_SubsetGuard ==
  inserted.only =>
    \A pc \in ParentChild(forest) : Range(pc[2].verts) \subseteq Range(pc[1].verts)

\* C3: after inserts and batch inserts alone, the forest's nodes carry
\* exactly the multiset of inserted non-empty hyperedges, so the node count
\* is the number of non-empty inserts.
C3_NodeConservation ==
  inserted.only =>
    /\ NodeBag(forest) = inserted.bag
    /\ count_total_nodes(forest) = BagCardinality(inserted.bag)

\* three inserts, the last of which captured both earlier nodes as children
C3_Witness ==
  /\ inserted.only
  /\ BagCardinality(inserted.bag) = 3
  /\ Len(forest) = 1
  /\ Len(forest[1].children) = 2

\* C4: the vertex sequence insert_hyperedge stores is strictly increasing
\* and holds exactly the distinct values of the input, for any int values.
C4_CanonicalVerts ==
  /\ \A nd \in Range(collect_all_nodes(forest)) : StrictlyIncreasing(nd.verts)
  /\ inserted.only => NodeBag(forest) = inserted.bag

\* no inserted hyperedge's vertex set is a subset of another's
Antichain(bag) ==
  /\ \A e \in BagToSet(bag) : CopiesIn(e, bag) = 1
  /\ \A a, b \in BagToSet(bag) : a # b => ~(a.verts \subseteq b.verts)

\* C5: hyperedges none of which is a subset of another, inserted into an
\* empty forest with any weights in any order, are all roots.
C5_IncomparableStayRoots ==
  (inserted.only /\ Antichain(inserted.bag)) =>
    /\ Len(forest) = BagCardinality(inserted.bag)
    /\ \A i \in 1 .. Len(forest) : forest[i].children = <<>>

RECURSIVE IsChainFrom(_, _)
IsChainFrom(nd, k) ==
  /\ nd.verts = Asc(k)
  /\ IF k = 1 THEN nd.children = <<>>
     ELSE Len(nd.children) = 1 /\ IsChainFrom(nd.children[1], k - 1)

\* C6: the nested sets {1} .. {1..ChainLen}, weights strictly increasing
\* with size, inserted in any order, give one root {1..ChainLen} heading a
\* single chain of depth ChainLen down to {1}, carrying the inserted weights.
C6_ChainOrderIndependent ==
  BagCardinality(inserted.bag) = ChainLen =>
    /\ Len(forest) = 1
    /\ Len(forest[1].verts) = ChainLen
    /\ IsChainFrom(forest[1], ChainLen)
    /\ forest_max_depth(forest) = ChainLen
    /\ NodeBag(forest) = inserted.bag

\* the whole chain inserted, with two neighbours closer than the tolerance
C6_Witness ==
  /\ BagCardinality(inserted.bag) = ChainLen
  /\ forest_max_depth(forest) = ChainLen
  /\ \E pc \in ParentChild(forest) : pc[1].weight - pc[2].weight < EPSILON

FullScanCount(f, t) == Cardinality({p \in AllPaths(f) : NodeAt(f, p).weight >= t})

\* C7: find_by_weight_threshold(f, t) is the number of nodes of weight >= t,
\* for every reachable forest and every threshold.
C7_ThresholdExact ==
  \A t \in ThresholdsOf(forest) : find_by_weight_threshold(forest, t) = FullScanCount(forest, t)

\* C8: when the forest has at least k nodes, no node outside find_top_k's
\* result is heavier than a node inside it.
C8_TopKHeaviest ==
  \A k \in 1 .. count_total_nodes(forest) :
    LET res == Range(find_top_k(forest, k))
    IN \A p \in AllPaths(forest) \ res, q \in res :
         NodeAt(forest, p).weight <= NodeAt(forest, q).weight

Queries == {q \in RawLists : StrictlyIncreasing(q)}

NoRepeats(s) == \A i, j \in DOMAIN s : i # j => s[i] # s[j]

\* C10: in a forest built by insertions, find_all_supersets and
\* find_containing_vertices each return exactly the nodes whose vertex set
\* contains the query, each once.
C10_SupersetSearchExact ==
  inserted.only =>
    \A q \in Queries :
      LET want == {p \in AllPaths(forest) : Range(q) \subseteq Range(NodeAt(forest, p).verts)}
          sup == find_all_supersets(forest, q)
          con == find_containing_vertices(forest, q)
      IN /\ Range(sup) = want /\ NoRepeats(sup)
         /\ Range(con) = want /\ NoRepeats(con)

\* the nodes whose vertex set contains the query
Containing(f, q) == {p \in AllPaths(f) : Range(q) \subseteq Range(NodeAt(f, p).verts)}

\* C11: find_heaviest_superset(f, Q) returns a node that contains Q and is
\* as heavy as any node that contains Q, and NULL only when no node does.
C11_HeaviestSupersetExact ==
  \A q \in Queries :
    LET want == Containing(forest, q)
        r == find_heaviest_superset(forest, q)
    IN /\ r = <<>> <=> want = {}
       /\ r # <<>> =>
            /\ r \in want
            /\ \A p \in want : NodeAt(forest, p).weight <= NodeAt(forest, r).weight

\* C12: in a forest built by insertions, find_by_weight_range(f, min, max)
\* returns exactly the nodes of weight min <= w <= max, each once, for
\* every min <= max.
C12_WeightRangeExact ==
  inserted.only =>
    \A lo, hi \in ThresholdsOf(forest) :
      lo <= hi =>
        LET res == find_by_weight_range(forest, lo, hi)
        IN /\ Range(res) = {p \in AllPaths(forest) :
                              /\ NodeAt(forest, p).weight >= lo
                              /\ NodeAt(forest, p).weight <= hi}
           /\ NoRepeats(res)

\* C13: forest_prune_by_weight(f, t) leaves no node of weight < t and keeps
\* every node whose weight was >= t.
C13_PruneExact ==
  [][\A t \in ThresholdsOf(forest) :
       forest' = forest_prune_by_weight(forest, t).forest =>
         /\ \A nd \in Range(collect_all_nodes(forest')) : nd.weight >= t
         /\ \A e \in BagToSet(NodeBag(forest)) :
              e.weight >= t => CopiesIn(e, NodeBag(forest')) = CopiesIn(e, NodeBag(forest))]_vars

\* C14: forest_prune_by_weight returns count_total_nodes before the call
\* minus count_total_nodes after it.
C14_PruneReturnsRemoved ==
  [][\A t \in ThresholdsOf(forest) :
       forest' = forest_prune_by_weight(forest, t).forest =>
         forest_prune_by_weight(forest, t).ret
           = count_total_nodes(forest) - count_total_nodes(forest')]_vars

\* the weights of the nodes of all_nodes, from index i on, with vertex
\* sequence verts: their sum, their number, their maximum
RECURSIVE GroupStats(_, _, _)
GroupStats(all_nodes, verts, i) ==
  IF i > Len(all_nodes) THEN [sum |-> 0, n |-> 0, max |-> -1]
  ELSE LET rest == GroupStats(all_nodes, verts, i + 1)
       IN IF all_nodes[i].verts = verts
          THEN [sum |-> rest.sum + all_nodes[i].weight,
                n |-> rest.n + 1,
                max |-> IF all_nodes[i].weight > rest.max THEN all_nodes[i].weight ELSE rest.max]
          ELSE rest

VertexSets(f) == {nd.verts : nd \in Range(collect_all_nodes(f))}

\* C15: after forest_merge_duplicates(f, keep_max) the forest holds one node
\* per distinct vertex set, weighing the maximum (keep_max = 1) or the mean
\* (keep_max = 0) of the weights that vertex set had before the call.
C15_MergeLeavesOnePerSet ==
  [][\A keep_max \in {0, 1} :
     \A m \in forest_merge_duplicates(forest, keep_max) :
       forest' = m.forest =>
         LET before == collect_all_nodes(forest)
             after == collect_all_nodes(forest')
         IN /\ VertexSets(forest') = VertexSets(forest)
            /\ Len(after) = Cardinality(VertexSets(forest))
            /\ \A i \in DOMAIN after :
                 LET g == GroupStats(before, after[i].verts, 1)
                 IN after[i].weight = IF keep_max = 1 THEN g.max ELSE g.sum \div g.n]_vars

\* C16: forest_merge_duplicates returns the node count before the call minus
\* the number of distinct vertex sets among the nodes.
C16_MergeReturnsDuplicates ==
  [][\A keep_max \in {0, 1} :
     \A m \in forest_merge_duplicates(forest, keep_max) :
       forest' = m.forest =>
         m.ret = count_total_nodes(forest) - Cardinality(VertexSets(forest))]_vars

\* a mean merge has merged something, in a forest of three nodes with one
\* vertex set (which the merge returned 2 for)
C16_Witness ==
  /\ means > 0
  /\ count_total_nodes(forest) = 3
  /\ Cardinality(VertexSets(forest)) = 1

\* C17: two forests that hold the same hyperedges are identical after
\* forest_rebalance.  The two forests are the two ends of a step that leaves
\* the multiset of hyperedges as it was (a rebalance, a merge or a prune
\* that changes no node); every forest rebalance can make of the one is to
\* equal every forest it can make of the other.
C17_RebalanceShapeIndependent ==
  [][NodeBag(forest') = NodeBag(forest) =>
       \A x \in forest_rebalance(forest), y \in forest_rebalance(forest') : x = y]_vars

\* C18: forest_build_bulk(edges) returns the forest that inserting the same
\* edges into an empty forest with forest_insert_batch and then calling
\* forest_rebalance gives.
C18_BulkEqualsBatchRebalance ==
  [][forest = <<>> =>
       \A nedges \in 0 .. Min(MaxBatch, MaxNodes) :
       \A edges \in [1 .. nedges -> Edges] :
         (inserted'.only /\ inserted'.bag = BagOfEdges(edges, 1)
          /\ forest' \in forest_build_bulk(edges)) =>
           \A g \in forest_insert_batch(<<>>, edges, 1) :
           \A y \in forest_rebalance(g) : forest' = y]_vars

\* C19: forest_load of the file forest_save(f) wrote returns a forest with
\* the same node count, root and child order, and the same vertex sequence
\* and weight at every pre-order position.
C19_SaveLoadRoundTrip ==
  LET loaded == forest_load(forest_save(forest))
  IN /\ loaded.ok
     /\ count_total_nodes(loaded.forest) = count_total_nodes(forest)
     /\ collect_all_nodes(loaded.forest) = collect_all_nodes(forest)
     /\ loaded.forest = forest

\* a forest of two roots, the first with a child, saved in 76 bytes or more
\* and loaded back
C19_Witness ==
  /\ Len(forest) = 2
  /\ Len(forest[1].children) = 1
  /\ forest[1].weight # forest[2].weight
  /\ Len(forest_save(forest)) >= 76
  /\ forest_load(forest_save(forest)).ok
  /\ Len(forest_load(forest_save(forest)).forest[1].children) = 1

\* C20: forest_load of any proper prefix of the file forest_save(f) wrote,
\* the empty file included, returns NULL.
C20_TruncatedLoadFails ==
  LET file == forest_save(forest)
  IN \A n \in 0 .. Len(file) - 1 : ~forest_load(SubSeq(file, 1, n)).ok

\* a saved forest of three nodes in a chain, whose file cut after the root's
\* child count (the root's own fields read whole, its child missing) fails
\* to load
C20_Witness ==
  /\ Len(forest) = 1
  /\ forest_max_depth(forest) = 3
  /\ Len(forest[1].verts) = 3
  /\ read_node(SubSeq(forest_save(forest), 1, 32), 4).pos = 32
  /\ ~forest_load(SubSeq(forest_save(forest), 1, 32)).ok

\* C21: insert_hyperedge with an empty vertex list leaves the forest as it
\* was: same roots in the same order, same subtrees, same node count.
C21_EmptyInsertNoOp ==
  \A w \in Weights :
    /\ insert_hyperedge(forest, <<>>, w) # {}
    /\ \A f2 \in insert_hyperedge(forest, <<>>, w) :
         /\ f2 = forest
         /\ count_total_nodes(f2) = count_total_nodes(forest)

\* a forest of two roots, one with a child, that an empty insert has been
\* applied to
C21_Witness ==
  /\ Len(forest) = 2
  /\ count_total_nodes(forest) = 3
  /\ insert_hyperedge(forest, <<>>, Scale) = {forest}

\* A dominates B
Dominates(A, B) == weighted_cmp(A, B) = -1

\* C22: dominance is transitive: if A dominates B and B dominates C then A
\* dominates C, for all hyperedges A, B, C (here any three nodes of the
\* forest).
C22_DominanceTransitive ==
  \A A, B, C \in Range(collect_all_nodes(forest)) :
    (Dominates(A, B) /\ Dominates(B, C)) => Dominates(A, C)

\* C23: forest_min_weight(f) is the least weight among all nodes of a
\* non-empty forest, and 0.0 for an empty one.
C23_MinWeightExact ==
  forest_min_weight(forest) =
    IF forest = <<>> THEN 0
    ELSE CHOOSE w \in NodeWeights(forest) : \A v \in NodeWeights(forest) : w <= v

\* C24: in each of the three traversals, a visitor that first returns
\* non-zero on its n-th call is called exactly n times, on the nodes the
\* traversal would have visited first anyway.
C24_EarlyStop ==
  \A n \in 1 .. count_total_nodes(forest) :
    /\ forest_traverse_bfs(forest, n) = SubSeq(forest_traverse_bfs(forest, 0), 1, n)
    /\ forest_traverse_dfs(forest, n) = SubSeq(forest_traverse_dfs(forest, 0), 1, n)
    /\ \A calls \in forest_traverse_by_weight(forest, n) :
         /\ Len(calls) = n
         /\ \E full \in forest_traverse_by_weight(forest, 0) : calls = SubSeq(full, 1, n)

\* a root with two children: a stop on the 2nd call (the first child) leaves
\* the second child unvisited in both the breadth-first and the depth-first
\* walk
C24_Witness ==
  /\ count_total_nodes(forest) = 3
  /\ Len(forest) = 1
  /\ Len(forest[1].children) = 2
  /\ forest_traverse_dfs(forest, 2) = << <<1>>, <<1, 1>> >>
  /\ forest_traverse_bfs(forest, 2) = << <<1>>, <<1, 1>> >>
  /\ Len(forest_traverse_dfs(forest, 0)) = 3

\* C25: with a visitor that never stops, each traversal calls it exactly
\* once for every node of the forest.
C25_TraversalComplete ==
  LET N == count_total_nodes(forest)
      Once(calls) == /\ Len(calls) = N
                     /\ Range(calls) = AllPaths(forest)
                     /\ NoRepeats(calls)
  IN /\ Once(forest_traverse_bfs(forest, 0))
     /\ Once(forest_traverse_dfs(forest, 0))
     /\ forest_traverse_by_weight(forest, 0) # {}
     /\ \A calls \in forest_traverse_by_weight(forest, 0) : Once(calls)

\* two roots, the first with a child: the three traversals visit the three
\* nodes in different orders
C25_Witness ==
  /\ Len(forest) = 2
  /\ Len(forest[1].children) = 1
  /\ forest[2].weight > forest[1].weight
  /\ forest_traverse_bfs(forest, 0) = << <<1>>, <<2>>, <<1, 1>> >>
  /\ forest_traverse_dfs(forest, 0) = << <<1>>, <<1, 1>>, <<2>> >>
  /\ \E calls \in forest_traverse_by_weight(forest, 0) : calls[1] = <<2>>

\* |Q \cap V| / min(|Q|, |V|) of the node at p is greater than that of the
\* node at r (by cross-multiplication; both sets non-empty)
MoreSimilar(f, q, p, r) ==
  LET Q == Range(q)
      P == Range(NodeAt(f, p).verts)
      R == Range(NodeAt(f, r).verts)
  IN Cardinality(Q \cap P) * Min(Cardinality(Q), Cardinality(R))
       > Cardinality(Q \cap R) * Min(Cardinality(Q), Cardinality(P))

\* C26: for k >= 0 find_k_most_similar returns min(k, N) distinct nodes in
\* non-increasing order of overlap ratio with the query, and no node left
\* out has a strictly greater ratio than a node returned.
C26_KMostSimilar ==
  LET N == count_total_nodes(forest)
  IN \A q \in Queries, k \in 0 .. N + 1 :
       LET results == find_k_most_similar(forest, q, k)
       IN
       /\ results # {}
       /\ \A res \in results :
            /\ Len(res) = Min(k, N)
            /\ NoRepeats(res)
            /\ Range(res) \subseteq AllPaths(forest)
            /\ q # <<>> =>
                 /\ \A i \in 1 .. Len(res) - 1 : ~MoreSimilar(forest, q, res[i + 1], res[i])
                 /\ \A p \in AllPaths(forest) \ Range(res), r \in Range(res) :
                      ~MoreSimilar(forest, q, p, r)

\* three nodes with three different overlap ratios with the query {1,2}
\* (1, 1/2 and 0), of which find_k_most_similar returns the best two
C26_Witness ==
  /\ count_total_nodes(forest) = 3
  /\ \E res \in find_k_most_similar(forest, <<1, 2>>, 2) :
       /\ Len(res) = 2
       /\ MoreSimilar(forest, <<1, 2>>, res[1], res[2])
       /\ \E p \in AllPaths(forest) \ Range(res) : MoreSimilar(forest, <<1, 2>>, res[2], p)

Nested(A, B) == A \subseteq B \/ B \subseteq A

\* every node is a childless root, no root's vertex set is a subset of
\* another's, and the weights strictly decrease along the root list: what
\* descending insertion of non-nested sets is to have built so far
DescendingRoots(f) ==
  /\ \A i \in DOMAIN f : f[i].children = <<>>
  /\ \A i, j \in DOMAIN f : i < j =>
       /\ f[i].weight > f[j].weight
       /\ ~Nested(Range(f[i].verts), Range(f[j].verts))

\* C27: hyperedges none of which is a subset of another, inserted in
\* strictly decreasing weight order, all become roots in insertion order,
\* and find_top_k(f, k) returns the first k of them, the k heaviest in
\* descending order.  Stated on the insert that extends such a forest.
C27_DescendingInsertsAreRoots ==
  [][\A raw \in RawLists \ {<<>>}, w \in Weights :
       (/\ DescendingRoots(forest)
        /\ \A i \in DOMAIN forest :
             /\ w < forest[i].weight
             /\ ~Nested(Range(raw), Range(forest[i].verts))
        /\ forest' \in insert_hyperedge(forest, raw, w))
       => /\ Len(forest') = Len(forest) + 1
          /\ SubSeq(forest', 1, Len(forest)) = forest
          /\ Range(forest'[Len(forest')].verts) = Range(raw)
          /\ forest'[Len(forest')].weight = w
          /\ DescendingRoots(forest')
          /\ \A k \in 1 .. Len(forest') :
               find_top_k(forest', k) = [i \in 1 .. k |-> <<i>>]]_vars

\* one root P whose children are childless, pairwise disjoint subsets of P,
\* each lighter than P: what the siblings' insertion is to have built so far
SiblingsUnderRoot(f) ==
  /\ Len(f) = 1
  /\ \A i \in DOMAIN f[1].children :
       LET c == f[1].children[i]
       IN /\ c.children = <<>>
          /\ Range(c.verts) \subseteq Range(f[1].verts)
          /\ c.weight < f[1].weight
          /\ \A j \in DOMAIN f[1].children :
               i # j => Range(c.verts) \cap Range(f[1].children[j].verts) = {}

\* C28: with P the only root, hyperedges that are pairwise disjoint subsets
\* of P, each lighter than P, inserted one after another with any weights
\* among themselves, all end up as direct children of P, so P has as many
\* children as subsets were inserted.  Stated on the insert of the next one.
C28_DisjointSubsetsAreSiblings ==
  [][\A raw \in RawLists \ {<<>>}, w \in Weights :
       (/\ SiblingsUnderRoot(forest)
        /\ Range(raw) \subseteq Range(forest[1].verts)
        /\ w < forest[1].weight
        /\ \A i \in DOMAIN forest[1].children :
             Range(raw) \cap Range(forest[1].children[i].verts) = {}
        /\ forest' \in insert_hyperedge(forest, raw, w))
       => /\ SiblingsUnderRoot(forest')
          /\ Len(forest'[1].children) = Len(forest[1].children) + 1
          /\ forest'[1].verts = forest[1].verts
          /\ forest'[1].weight = forest[1].weight
          /\ \E i \in DOMAIN forest'[1].children :
               /\ Range(forest'[1].children[i].verts) = Range(raw)
               /\ forest'[1].children[i].weight = w]_vars

WeightsApart(f) ==
  LET all == collect_all_nodes(f)
  IN \A i, j \in DOMAIN all : i # j => Abs(all[i].weight - all[j].weight) > EPSILON

SubsetJustified(f) ==
  \A pc \in ParentChild(f) : Range(pc[2].verts) \subseteq Range(pc[1].verts)

====
